---- MODULE Spec2Model ----
(***************************************************************************)
(* A state-machine model of PagesRouteModule (server/future/route-modules/ *)
(* pages/module.tsx): one module instance handling requests through        *)
(* handle() = setup() ; preview resolution ; render() ; transform().       *)
(* Each await of render() is a step of its own; the user's data-fetching   *)
(* functions are inputs drawn at the step that calls them.  Further         *)
(* specifications run two requests at once, take the Document's markup     *)
(* from all bounded markups, and model linkPackages() of the repository    *)
(* helper.                                                                 *)
(***************************************************************************)
EXTENDS Integers, Sequences, FiniteSets, TLC

VARIABLES
  mod,        \* the module instance: userland exports, components, config, renderOpts
  ctx,        \* the PagesRouteHandlerContext of the request being handled
  pc,         \* position of handle()/render() for the current request
  err,        \* the error handle() rejected with ("none" while it has not)
  calls,      \* how often each stage / user function ran for this request
  preview,    \* previewData / isPreviewMode as computed by handle()
  query,      \* render()'s local `query`
  initialProps, \* what loadGetInitialProps(App, ...) resolved to
  props,      \* render()'s local `props`
  metadata,   \* render()'s local `metadata` (RenderResultMetadata)
  data,       \* what the user's getStaticProps / getServerSideProps returned
  proxyCtx,   \* the response-proxy context of the getServerSideProps call
  gssp,       \* state of the promise returned by the user's getServerSideProps
  res,        \* the MockedResponse of the request
  nextData,   \* the __NEXT_DATA__ hydration payload handed to the Document
  result,     \* the RenderResult render() returned
  instance,   \* requests handled and setup() runs of the module instance so far
  passed,     \* the preview arguments the user's functions were called with
  thrown,     \* the error a user data-fetching function threw, as thrown
  jsxStyleRegistry, \* the CSS-in-JS style registry of the render
  docProps,   \* what Document.getInitialProps resolved to
  request,    \* the NextRequest handed to render()
  inAmpMode,  \* render()'s local `inAmpMode`, the result of isInAmpMode(ampState)
  documentMarkup, \* the markup the Document component renders to
  html,       \* the HTML render() hands to postProcessHTML
  other,      \* the locals of a second request, suspended at an await
  link        \* linkPackages() of the repository helper: its locals, the
              \* package.json files and the yarn pack processes

vars == <<mod, ctx, pc, err, calls, preview, query, initialProps, props,
          metadata, data, proxyCtx, gssp, res, nextData, result,
          instance, passed, thrown, jsxStyleRegistry, docProps, request,
          inAmpMode, documentMarkup, html, other, link>>

\* what no step of handle() and render() changes besides the module instance
outside == <<inAmpMode, documentMarkup, other, link>>

----------------------------------------------------------------------------
(* Bounds of the model *)

MaxRevalidate == 1     \* largest revalidate interval a user function returns
MaxWrites == 1         \* writes the user's getServerSideProps attempts on `res`
MaxDeviations == 2     \* secondary settings of a request that leave the baseline
MaxInsertions == 1     \* times the body stream asks for server-inserted HTML
MaxRequests == 2       \* requests one module instance handles in a row
MaxMarkup == 4         \* pieces of markup a Document renders to
MaxPackages == 3       \* directories fs.readdir finds under packages/

----------------------------------------------------------------------------
(* Plain objects: a function from a finite set of keys to strings *)

EmptyObj == [k \in {} |-> "0"]

Obj(keys, v) == [k \in keys |-> v]

\* Object.assign({}, a, b)
ObjectAssign(a, b) ==
  [k \in (DOMAIN a) \cup (DOMAIN b) |-> IF k \in DOMAIN b THEN b[k] ELSE a[k]]

----------------------------------------------------------------------------
(* The module instance and the request *)

\* userland exports, components, config and renderOpts of the instance
Modules ==
  [ gsp : BOOLEAN,              \* userland.getStaticProps is declared
    gssp : BOOLEAN,             \* userland.getServerSideProps is declared
    gip : BOOLEAN,              \* Component.getInitialProps is declared
    gsPaths : BOOLEAN,          \* userland.getStaticPaths is declared
    isDynamic : BOOLEAN,        \* isDynamicRoute(page)
    component : {"ok", "member", "invalid"},
                                \* "member": a data-fetching method name is a
                                \* property of Component; "invalid": one of
                                \* Component/App/Document is no React component
    dev : BOOLEAN,              \* renderOpts.dev
    production : BOOLEAN,       \* process.env.NODE_ENV === 'production'
    outputExport : BOOLEAN,     \* config.output === 'export'
    appDefaultGIP : BOOLEAN,    \* App.getInitialProps === App.origGetInitialProps
    docGIP : BOOLEAN ]          \* Document.getInitialProps is declared

\* the query of a request: always carries `id`, optionally the fallback marker
Queries ==
  { Obj(ks \cup {"id"}, "1") : ks \in SUBSET {"__nextFallback"} }

Contexts ==
  [ page : {"/p", "/404"},      \* renderOpts.page
    export : BOOLEAN,           \* context.export
    isDataReq : BOOLEAN,        \* renderOpts.isDataReq
    query : Queries,            \* renderOpts.query
    hasReq : BOOLEAN,           \* request.request.originalRequest exists
    hasManifest : BOOLEAN,      \* manifests.prerender is defined
    cookie : {"none", "invalid", "valid"} ]   \* the preview cookie of the request

B2N(b) == IF b THEN 1 ELSE 0

\* Configurations the model starts from.  The settings that every stage of
\* render() reads (exports, dev, NODE_ENV, export flags, page) vary freely; of
\* the secondary settings at most MaxDeviations leave their baseline value at
\* a time.  `next dev` always runs with NODE_ENV = development.
Deviations(m, c) ==
    B2N("__nextFallback" \in DOMAIN c.query)
  + B2N(~m.appDefaultGIP)
  + B2N(m.docGIP)
  + B2N(m.component # "ok")
  + B2N(~(c.hasReq /\ c.hasManifest /\ c.cookie = "none"))

Reachable(m, c) ==
  /\ m.dev => ~m.production
  /\ m.component = "invalid" => m.dev
  /\ c.isDataReq => m.gssp
  /\ c.cookie # "valid" => (c.hasReq /\ c.hasManifest)
  /\ Deviations(m, c) <= MaxDeviations

NoError == [msg |-> "none", code |-> "none"]
Error(msg) == [msg |-> msg, code |-> "none"]

NoNextData ==
  [ built |-> FALSE, props |-> [keys |-> <<>>, pageProps |-> EmptyObj],
    page |-> "", query |-> EmptyObj, nextExport |-> FALSE, autoExport |-> FALSE,
    isFallback |-> FALSE, gsp |-> FALSE, gssp |-> FALSE, gip |-> FALSE,
    appGip |-> FALSE, isPreview |-> FALSE ]

NoMetadata ==
  [ isNotFound |-> FALSE, isRedirect |-> FALSE,
    revalidate |-> [kind |-> "unset", n |-> 0], pageData |-> FALSE ]

NoResult ==
  [ produced |-> FALSE, body |-> "none",
    json |-> [keys |-> <<>>, pageProps |-> EmptyObj], metadata |-> NoMetadata ]

NoData ==
  [ by |-> "none", invalidKeys |-> FALSE, hasProps |-> FALSE, props |-> EmptyObj,
    deferred |-> FALSE, notFound |-> "absent", redirect |-> "absent",
    revalidate |-> [kind |-> "absent", n |-> 0] ]

\* no user data-fetching function has been called
NotPassed ==
  [ gsp |-> [called |-> FALSE, preview |-> FALSE, previewData |-> "undefined"],
    gssp |-> [called |-> FALSE, preview |-> FALSE, previewData |-> "undefined"] ]

\* no user data-fetching function has thrown
NotThrown == [ by |-> "none", error |-> NoError ]

\* createStyleRegistry(): no styles collected; the counters tell how often
\* flush() ran at each of its call sites and how often the styles of the
\* page went into the output
createStyleRegistry ==
  [ pending |-> FALSE, emitted |-> 0, byDocument |-> 0, byInsertedHTML |-> 0 ]

DOCTYPE == "<!DOCTYPE html>"

\* the marker <Main /> renders, where the body goes
BodyRenderTarget ==
  "<next-js-internal-body-render-target></next-js-internal-body-render-target>"

\* the markup of a Document: a sequence of pieces, the doctype at its start
\* if anywhere, the marker wherever the Document renders <Main />
Documents ==
  UNION { { d \in [1..n -> {DOCTYPE, BodyRenderTarget, "<html>", "</html>"}] :
              \A i \in 2..n : d[i] # DOCTYPE } : n \in 0..MaxMarkup }

\* what the Document of the framework renders to
BuiltinDocument == <<"<html>", BodyRenderTarget, "</html>">>

\* new MockedResponse(): nothing sent; sentByInitialProps records that the
\* response was finished while the initial props were loaded
NoResponse ==
  [ sent |-> FALSE, writes |-> 0, dropped |-> 0, sentByInitialProps |-> FALSE ]

\* the NextRequest of a context: the /404 page answers a URL no page matched
NextRequest(c) ==
  [ url |-> IF c.page = "/404" THEN "/missing" ELSE c.page,
    nextUrl |-> [ pathname |-> IF c.page = "/404" THEN "/missing" ELSE c.page ] ]

\* linkPackages() has not been called
NotLinking ==
  [ pc |-> "start", nextSwcPkg |-> FALSE, pkgs |-> <<>>, pkgDatas |-> <<>>,
    pkgPaths |-> <<>>, written |-> 0, files |-> <<>>, promises |-> <<>>,
    returned |-> "none" ]

\* no second request is being handled
NoRequest == [ pc |-> "none" ]

\* the state handle() finds when a request reaches a constructed module
InitRender ==
  /\ mod \in Modules
  /\ ctx \in Contexts
  /\ Reachable(mod, ctx)
  /\ pc = "start"
  /\ err = NoError
  /\ calls = [ setup |-> 0, resolver |-> 0, render |-> 0, gip |-> 0, gsp |-> 0,
               gssp |-> 0, document |-> 0, transform |-> 0 ]
  /\ preview = [ previewData |-> "undefined", isPreviewMode |-> FALSE ]
  /\ query = ctx.query
  /\ initialProps = [ keys |-> <<>>, pageProps |-> EmptyObj ]
  /\ props = [ keys |-> <<>>, pageProps |-> EmptyObj ]
  /\ metadata = NoMetadata
  /\ data = NoData
  /\ proxyCtx = [ hasResolved |-> FALSE, isDeferred |-> FALSE ]
  /\ gssp = [ state |-> "none", error |-> NoError ]
  /\ res = NoResponse
  /\ nextData = NoNextData
  /\ result = NoResult
  /\ instance = [ requests |-> 1, setups |-> 0 ]
  /\ passed = NotPassed
  /\ thrown = NotThrown
  /\ jsxStyleRegistry = createStyleRegistry
  /\ docProps = "none"
  /\ request = NextRequest(ctx)
  /\ html = <<>>

\* a page outside AMP mode under the built-in Document
Init ==
  /\ InitRender
  /\ inAmpMode = FALSE
  /\ documentMarkup = BuiltinDocument
  /\ other = NoRequest
  /\ link = NotLinking

----------------------------------------------------------------------------
(* setup(): the validation of the userland module *)

\* setup() without its getServerSideProps/getStaticProps conflict check
setup_noSsgSspConflict(page, nextExport, dev) ==
  CASE nextExport /\ mod.gssp -> "SERVER_PROPS_EXPORT_ERROR"
    [] mod.gsp /\ mod.gip -> "SSG_GET_INITIAL_PROPS_CONFLICT"
    [] mod.gssp /\ mod.gip -> "SERVER_PROPS_GET_INIT_PROPS_CONFLICT"
    [] mod.gssp /\ mod.outputExport -> "gssp with output: export"
    [] mod.gsPaths /\ ~mod.isDynamic -> "getStaticPaths on non-dynamic page"
    [] mod.gsPaths /\ ~mod.gsp -> "getStaticPaths without getStaticProps"
    [] mod.isDynamic /\ mod.gsp /\ ~mod.gsPaths -> "getStaticPaths is required"
    [] mod.component = "member" -> "GSSP_COMPONENT_MEMBER_ERROR"
    [] dev /\ mod.component = "invalid" -> "not a React Component"
    [] dev /\ page \in {"/404", "/500"} /\ (mod.gssp \/ mod.gip)
         -> "STATIC_STATUS_PAGE_GET_INITIAL_PROPS_ERROR"
    [] OTHER -> "ok"

\* setup() without its getServerSideProps/getInitialProps conflict check
setup_noSspGipConflict(page, nextExport, dev) ==
  CASE nextExport /\ mod.gssp -> "SERVER_PROPS_EXPORT_ERROR"
    [] mod.gsp /\ mod.gip -> "SSG_GET_INITIAL_PROPS_CONFLICT"
    [] mod.gssp /\ mod.gsp -> "SERVER_PROPS_SSG_CONFLICT"
    [] mod.gssp /\ mod.outputExport -> "gssp with output: export"
    [] mod.gsPaths /\ ~mod.isDynamic -> "getStaticPaths on non-dynamic page"
    [] mod.gsPaths /\ ~mod.gsp -> "getStaticPaths without getStaticProps"
    [] mod.isDynamic /\ mod.gsp /\ ~mod.gsPaths -> "getStaticPaths is required"
    [] mod.component = "member" -> "GSSP_COMPONENT_MEMBER_ERROR"
    [] dev /\ mod.component = "invalid" -> "not a React Component"
    [] dev /\ page \in {"/404", "/500"} /\ (mod.gssp \/ mod.gip)
         -> "STATIC_STATUS_PAGE_GET_INITIAL_PROPS_ERROR"
    [] OTHER -> "ok"

\* setup() without its check that a dynamic getStaticProps page has getStaticPaths
setup_noStaticPathsRequired(page, nextExport, dev) ==
  CASE nextExport /\ mod.gssp -> "SERVER_PROPS_EXPORT_ERROR"
    [] mod.gsp /\ mod.gip -> "SSG_GET_INITIAL_PROPS_CONFLICT"
    [] mod.gssp /\ mod.gip -> "SERVER_PROPS_GET_INIT_PROPS_CONFLICT"
    [] mod.gssp /\ mod.gsp -> "SERVER_PROPS_SSG_CONFLICT"
    [] mod.gssp /\ mod.outputExport -> "gssp with output: export"
    [] mod.gsPaths /\ ~mod.isDynamic -> "getStaticPaths on non-dynamic page"
    [] mod.gsPaths /\ ~mod.gsp -> "getStaticPaths without getStaticProps"
    [] mod.component = "member" -> "GSSP_COMPONENT_MEMBER_ERROR"
    [] dev /\ mod.component = "invalid" -> "not a React Component"
    [] dev /\ page \in {"/404", "/500"} /\ (mod.gssp \/ mod.gip)
         -> "STATIC_STATUS_PAGE_GET_INITIAL_PROPS_ERROR"
    [] OTHER -> "ok"

\* setup() without its getServerSideProps/output: 'export' check
setup_noOutputExportCheck(page, nextExport, dev) ==
  CASE nextExport /\ mod.gssp -> "SERVER_PROPS_EXPORT_ERROR"
    [] mod.gsp /\ mod.gip -> "SSG_GET_INITIAL_PROPS_CONFLICT"
    [] mod.gssp /\ mod.gip -> "SERVER_PROPS_GET_INIT_PROPS_CONFLICT"
    [] mod.gssp /\ mod.gsp -> "SERVER_PROPS_SSG_CONFLICT"
    [] mod.gsPaths /\ ~mod.isDynamic -> "getStaticPaths on non-dynamic page"
    [] mod.gsPaths /\ ~mod.gsp -> "getStaticPaths without getStaticProps"
    [] mod.isDynamic /\ mod.gsp /\ ~mod.gsPaths -> "getStaticPaths is required"
    [] mod.component = "member" -> "GSSP_COMPONENT_MEMBER_ERROR"
    [] dev /\ mod.component = "invalid" -> "not a React Component"
    [] dev /\ page \in {"/404", "/500"} /\ (mod.gssp \/ mod.gip)
         -> "STATIC_STATUS_PAGE_GET_INITIAL_PROPS_ERROR"
    [] OTHER -> "ok"

\* the error setup(page, nextExport, dev) throws, "ok" when it returns
setup(page, nextExport, dev) ==
  CASE nextExport /\ mod.gssp -> "SERVER_PROPS_EXPORT_ERROR"
    [] mod.gsp /\ mod.gip -> "SSG_GET_INITIAL_PROPS_CONFLICT"
    [] mod.gssp /\ mod.gip -> "SERVER_PROPS_GET_INIT_PROPS_CONFLICT"
    [] mod.gssp /\ mod.gsp -> "SERVER_PROPS_SSG_CONFLICT"
    [] mod.gssp /\ mod.outputExport -> "gssp with output: export"
    [] mod.gsPaths /\ ~mod.isDynamic -> "getStaticPaths on non-dynamic page"
    [] mod.gsPaths /\ ~mod.gsp -> "getStaticPaths without getStaticProps"
    [] mod.isDynamic /\ mod.gsp /\ ~mod.gsPaths -> "getStaticPaths is required"
    [] mod.component = "member" -> "GSSP_COMPONENT_MEMBER_ERROR"
    [] dev /\ mod.component = "invalid" -> "not a React Component"
    [] dev /\ page \in {"/404", "/500"} /\ (mod.gssp \/ mod.gip)
         -> "STATIC_STATUS_PAGE_GET_INITIAL_PROPS_ERROR"
    [] OTHER -> "ok"

\* a throw that is swallowed: the pipeline goes on to its next stage
Throw_goesOn(e) ==
  /\ pc' = "return"
  /\ err' = e

\* a throw out of handle(): the request ends without a RenderResult
Throw(e) ==
  /\ pc' = "failed"
  /\ err' = e

\* handle(): this.setup(context.renderOpts.page, context.export, renderOpts.dev)
handle_setup ==
  /\ pc = "start"
  /\ calls' = [calls EXCEPT !.setup = @ + 1]
  /\ instance' = [instance EXCEPT !.setups = @ + 1]
  /\ LET e == setup(ctx.page, ctx.export, mod.dev) IN
       IF e # "ok" THEN Throw(Error(e))
       ELSE pc' = "preview" /\ UNCHANGED err
  /\ UNCHANGED <<outside, html, mod, ctx, docProps, request, passed, thrown, jsxStyleRegistry, initialProps, preview, query, props, metadata, data, proxyCtx,
                 gssp, res, nextData, result>>

\* tryGetPreviewData(req, res, preview options): false unless the cookie decodes
tryGetPreviewData(cookie) == IF cookie = "valid" THEN "data" ELSE "false"

\* the preview resolver is asked on every page
resolvesPreview_anyPage == ctx.hasReq /\ ctx.hasManifest

\* req && tryGetPreviewData && context.manifests.prerender &&
\* (getServerSideProps or getStaticProps is a function)
resolvesPreview == ctx.hasReq /\ ctx.hasManifest /\ (mod.gssp \/ mod.gsp)

\* handle(): the preview check, then the call of render()
handle_preview ==
  /\ pc = "preview"
  /\ IF resolvesPreview
       THEN /\ calls' = [calls EXCEPT !.resolver = @ + 1]
            /\ preview' = [ previewData |-> tryGetPreviewData(ctx.cookie),
                            isPreviewMode |-> tryGetPreviewData(ctx.cookie) # "false" ]
       ELSE UNCHANGED <<calls, preview>>
  /\ pc' = "render"
  /\ UNCHANGED <<outside, html, mod, ctx, docProps, request, instance, passed, thrown, jsxStyleRegistry,
                 initialProps, err, query, props, metadata, data, proxyCtx,
                 gssp, res, nextData, result>>

----------------------------------------------------------------------------
(* render() *)

appHasDefaultGetInitialProps == mod.appDefaultGIP

isAutoExport == ~mod.gip /\ ~mod.gsp /\ ~mod.gssp /\ appHasDefaultGetInitialProps

isFallback == "__nextFallback" \in DOMAIN ctx.query

\* the preview mode of the context taken on a fallback render too
isPreview_onFallback == preview.isPreviewMode

isPreview == IF ~isFallback THEN preview.isPreviewMode ELSE FALSE

previewData == IF ~isFallback THEN preview.previewData ELSE "undefined"

\* nextExport computed without regard to getStaticProps
nextExport_withStaticProps ==
  ctx.export \/ (mod.dev /\ (isAutoExport \/ isFallback))

nextExport ==
  ~mod.gsp /\ (ctx.export \/ (mod.dev /\ (isAutoExport \/ isFallback)))

\* const pathname: string = request.nextUrl.pathname
pathname == request.nextUrl.pathname

\* the pathname of the route definition written to the request
nextUrlPathname_definition == ctx.page

\* request.nextUrl.pathname = pathname: the value written back to the request
nextUrlPathname == pathname

\* render() up to `await Loadable.preloadAll()`
render_begin ==
  /\ pc = "render"
  /\ calls' = [calls EXCEPT !.render = @ + 1]
  /\ query' = IF mod.dev /\ (isAutoExport \/ isFallback)
                THEN (IF "amp" \in DOMAIN ctx.query
                        THEN Obj({"amp"}, ctx.query["amp"]) ELSE EmptyObj)
                ELSE ctx.query
  /\ request' = IF mod.dev /\ (isAutoExport \/ isFallback)
                  THEN [request EXCEPT !.nextUrl.pathname = nextUrlPathname]
                  ELSE request
  /\ pc' = "initialProps"
  /\ UNCHANGED <<outside, html, mod, ctx, docProps, instance, passed, thrown, jsxStyleRegistry,
                 initialProps, err, preview, props, metadata, data, proxyCtx,
                 gssp, res, nextData, result>>

\* props: an object with its keys in insertion order
HasKey(p, k) == \E i \in 1..Len(p.keys) : p.keys[i] = k

SetKey(p, k) == IF HasKey(p, k) THEN p ELSE [p EXCEPT !.keys = Append(@, k)]

\* what the user's getInitialProps functions may return as page props
UserPageProps == { EmptyObj, Obj({"id", "k"}, "0") }

\* what a custom App.getInitialProps may return
AppProps ==
  { [keys |-> <<"pageProps">>, pageProps |-> pp] : pp \in UserPageProps }
    \cup { [keys |-> <<>>, pageProps |-> EmptyObj] }

\* loadGetInitialProps(App, {AppTree, Component, router, ctx}): the default
\* App.getInitialProps wraps Component.getInitialProps' result (or {}) in
\* pageProps, a custom one returns what the user's function does
loadGetInitialProps(appProps, componentProps) ==
  IF appHasDefaultGetInitialProps
    THEN [ keys |-> <<"pageProps">>,
           pageProps |-> IF mod.gip THEN componentProps ELSE EmptyObj ]
    ELSE appProps

\* the errors a user function may throw
UserErrors ==
  { [msg |-> "user error", code |-> c] : c \in {"none", "ENOENT"} }

\* render() from preloadAll to the settling of loadGetInitialProps(App, ...):
\* it resolves to the props, or a user getInitialProps throws and the await,
\* which is in no try block, rethrows the error as it is
render_loadGetInitialProps ==
  /\ pc = "initialProps"
  /\ calls' = [calls EXCEPT !.gip = @ + B2N(mod.gip)]
  /\ \/ /\ \E appProps \in (IF appHasDefaultGetInitialProps
                                THEN {[keys |-> <<>>, pageProps |-> EmptyObj]}
                                ELSE AppProps),
                componentProps \in (IF mod.gip THEN UserPageProps ELSE {EmptyObj}),
                endsRes \in (IF appHasDefaultGetInitialProps /\ ~mod.gip
                               THEN {FALSE} ELSE BOOLEAN) :
               /\ props' = loadGetInitialProps(appProps, componentProps)
               /\ initialProps' = props'
               /\ res' = [res EXCEPT !.sent = endsRes,
                                   !.sentByInitialProps = endsRes]
        /\ pc' = "staticProps"
        /\ UNCHANGED <<err, thrown>>
     \/ /\ (~appHasDefaultGetInitialProps) \/ mod.gip
        /\ \E e \in UserErrors :
             /\ Throw(e)
             /\ thrown' = [by |-> "gip", error |-> e]
        /\ UNCHANGED <<props, initialProps, res>>
  /\ UNCHANGED <<outside, html, mod, ctx, docProps, request, instance, passed, jsxStyleRegistry, preview, query,
                 metadata, data, proxyCtx, gssp, nextData, result>>

----------------------------------------------------------------------------
(* What the user's getStaticProps / getServerSideProps may do *)

P1 == Obj({"id"}, "1")

\* props with a value JSON cannot carry
PUndef == [k \in {"id", "fn"} |-> IF k = "fn" THEN "undefined" ELSE "1"]

\* props with a value JSON.stringify throws on
PBigInt == Obj({"id"}, "bigint")

RedirectProps == Obj({"__N_REDIRECT"}, "/to")

RevalidateValues ==
  { [kind |-> "absent", n |-> 0], [kind |-> "false", n |-> 0] }
    \cup { [kind |-> "number", n |-> i] : i \in (-1)..MaxRevalidate }

Results(by) ==
  { d \in [ by : {by}, invalidKeys : BOOLEAN, hasProps : BOOLEAN,
            props : {EmptyObj, P1, PUndef, PBigInt}, deferred : BOOLEAN,
            notFound : {"absent", "false", "true"},
            redirect : {"absent", "invalid", "valid"},
            revalidate : RevalidateValues ] :
      /\ d.hasProps <=> d.props # EmptyObj
      /\ d.deferred => (d.hasProps /\ by = "gssp")
      /\ by = "gssp" => d.revalidate.kind = "absent"
      /\ d.invalidKeys =>
           d = [NoData EXCEPT !.by = by, !.invalidKeys = TRUE] }

\* the catch rethrowing the error as it caught it
stripNotFoundCode_keep(e) == e

\* catch (err) { if (isError(err) && err.code === 'ENOENT') delete err.code; throw err }
stripNotFoundCode(e) == IF e.code = "ENOENT" THEN [e EXCEPT !.code = "none"] ELSE e

\* validateGetStaticProps / validateGetServerSideProps: only known keys
validateProps(d) == ~d.invalidKeys

\* the notFound/redirect conflict never looked for
mixedNotFoundRedirect_off(d) == FALSE

\* the notFound/redirect conflict looked for under renderOpts.dev only
mixedNotFoundRedirect_devOnly(d) ==
  mod.dev /\ d.notFound # "absent" /\ d.redirect # "absent"

\* 'notFound' in data && 'redirect' in data, looked at outside production only
mixedNotFoundRedirect(d) ==
  ~mod.production /\ d.notFound # "absent" /\ d.redirect # "absent"

\* 'notFound' in data && data.notFound
returnsNotFound(d) == d.notFound = "true"

\* 'redirect' in data && data.redirect && typeof data.redirect === 'object'
returnsRedirect(d) == d.redirect # "absent"

\* checkRedirectValues(data, url, method): the data with the redirect as props
checkRedirectValues(d) == [d EXCEPT !.hasProps = TRUE, !.props = RedirectProps]

\* validateRevalidate(revalidate, url): false or a positive integer
validateRevalidate(r) ==
  CASE r.kind = "false" -> [ok |-> TRUE, value |-> [kind |-> "false", n |-> 0]]
    [] r.kind = "number" /\ r.n > 0 -> [ok |-> TRUE, value |-> r]
    [] OTHER -> [ok |-> FALSE, value |-> r]

\* isSerializableProps(page, method, props)
isSerializableProps(p) == \A k \in DOMAIN p : p[k] \notin {"undefined", "bigint"}

\* JSON.stringify(props) throws a TypeError on a BigInt
JSONstringifyThrows(p) == \E k \in DOMAIN p.pageProps : p.pageProps[k] = "bigint"

\* JSON.stringify(props): keys in insertion order, undefined values dropped
JSONstringify(p) ==
  [ keys |-> p.keys,
    pageProps |-> [k \in {x \in DOMAIN p.pageProps : p.pageProps[x] # "undefined"}
                     |-> p.pageProps[k]] ]

\* new RenderResult(body, metadata)
RenderResult(body, json, md) ==
  [ produced |-> TRUE, body |-> body, json |-> json, metadata |-> md ]

\* the data after the redirect handling of getStaticProps' result
gspData(d) == IF returnsRedirect(d) THEN checkRedirectValues(d) ELSE d

\* the serializability of the props looked at in every mode
serializableChecked_always == TRUE

\* this.renderOpts.dev || context.export
serializableChecked == mod.dev \/ ctx.export

\* the handling of getStaticProps' result with a redirect let through on an
\* export render
getStaticPropsError_redirectOnExport(d) ==
  CASE ~validateProps(d) -> "invalid keys returned"
    [] mixedNotFoundRedirect(d) -> "redirect and notFound both returned"
    [] returnsNotFound(d) /\ ctx.page = "/404" -> "/404 can not return notFound"
    [] returnsRedirect(d) /\ d.redirect = "invalid" -> "invalid redirect"
    [] d.revalidate.kind # "absent" /\ ~validateRevalidate(d.revalidate).ok
         -> "invalid revalidate"
    [] d.revalidate.kind = "number" /\ mod.outputExport
         -> "ISR with output: export"
    [] serializableChecked /\ gspData(d).hasProps
         /\ ~isSerializableProps(gspData(d).props) -> "props not serializable"
    [] OTHER -> "ok"

\* the first error the handling of getStaticProps' result throws, "ok" if none
getStaticPropsError(d) ==
  CASE ~validateProps(d) -> "invalid keys returned"
    [] mixedNotFoundRedirect(d) -> "redirect and notFound both returned"
    [] returnsNotFound(d) /\ ctx.page = "/404" -> "/404 can not return notFound"
    [] returnsRedirect(d) /\ d.redirect = "invalid" -> "invalid redirect"
    [] returnsRedirect(d) /\ ctx.export -> "redirect during prerendering"
    [] d.revalidate.kind # "absent" /\ ~validateRevalidate(d.revalidate).ok
         -> "invalid revalidate"
    [] d.revalidate.kind = "number" /\ mod.outputExport
         -> "ISR with output: export"
    [] serializableChecked /\ gspData(d).hasProps
         /\ ~isSerializableProps(gspData(d).props) -> "props not serializable"
    [] OTHER -> "ok"

\* the metadata without the revalidate of the result
getStaticPropsMetadata_noRevalidate(d) ==
  [ isNotFound |-> returnsNotFound(d),
    isRedirect |-> returnsRedirect(d),
    revalidate |-> metadata.revalidate,
    pageData |-> TRUE ]

\* the metadata when a notFound result returned before the revalidate handling
getStaticPropsMetadata_notFoundFirst(d) ==
  [ isNotFound |-> returnsNotFound(d),
    isRedirect |-> returnsRedirect(d),
    revalidate |-> IF d.revalidate.kind # "absent" /\ ~returnsNotFound(d)
                     THEN validateRevalidate(d.revalidate).value
                     ELSE metadata.revalidate,
    pageData |-> TRUE ]

\* the metadata after the handling of getStaticProps' result
getStaticPropsMetadata(d) ==
  [ isNotFound |-> returnsNotFound(d),
    isRedirect |-> returnsRedirect(d),
    revalidate |-> IF d.revalidate.kind # "absent"
                     THEN validateRevalidate(d.revalidate).value
                     ELSE metadata.revalidate,
    pageData |-> TRUE ]

\* the merge with the arguments of Object.assign swapped
mergeProps_reversed(p, d) ==
  IF d.hasProps
    THEN [SetKey(p, "pageProps") EXCEPT !.pageProps = ObjectAssign(d.props, p.pageProps)]
    ELSE p

\* props.pageProps = Object.assign({}, props.pageProps, data.props)
mergeProps(p, d) ==
  IF d.hasProps
    THEN [SetKey(p, "pageProps") EXCEPT !.pageProps = ObjectAssign(p.pageProps, d.props)]
    ELSE p

\* props.__N_PREVIEW = true on a preview request of a page with gsp or gssp
markPreview(p) ==
  IF (mod.gsp \/ mod.gssp) /\ isPreview THEN SetKey(p, "__N_PREVIEW") ELSE p

\* ...(isPreview ? { preview: true, previewData } : undefined)
getStaticPropsPreview == isPreview

\* getServerSideProps told of a preview on every request
getServerSidePropsPreview_always == TRUE

\* ...(previewData !== false ? { preview: true, previewData } : undefined)
getServerSidePropsPreview == previewData # "false"

\* the preview arguments of a call of a user function
PreviewArgs(flag) ==
  [ called |-> TRUE, preview |-> flag,
    previewData |-> IF flag THEN previewData ELSE "undefined" ]

\* render(): the getStaticProps stage, from the resolution of
\* loadGetInitialProps to the end of the `if (getStaticProps)` block
render_getStaticProps ==
  /\ pc = "staticProps"
  /\ IF ~mod.gsp
       THEN /\ props' = markPreview(props)
            /\ pc' = "serverSideProps"
            /\ UNCHANGED <<err, calls, metadata, data, result, passed, thrown>>
       ELSE IF isFallback
         THEN /\ props' = SetKey(markPreview(props), "__N_SSG")
              /\ pc' = "serverSideProps"
              /\ UNCHANGED <<err, calls, metadata, data, result, passed, thrown>>
         ELSE
           /\ calls' = [calls EXCEPT !.gsp = @ + 1]
           /\ passed' = [passed EXCEPT !.gsp = PreviewArgs(getStaticPropsPreview)]
           /\ \/ \E e \in UserErrors :
                   /\ Throw(stripNotFoundCode(e))
                   /\ thrown' = [by |-> "gsp", error |-> e]
                   /\ props' = SetKey(markPreview(props), "__N_SSG")
                   /\ UNCHANGED <<metadata, data, result>>
              \/ \E d \in Results("gsp") :
                   /\ data' = d
                   /\ UNCHANGED thrown
                   /\ IF getStaticPropsError(d) # "ok"
                        THEN /\ Throw(Error(getStaticPropsError(d)))
                             /\ props' = SetKey(markPreview(props), "__N_SSG")
                             /\ UNCHANGED <<metadata, result>>
                        ELSE /\ props' = mergeProps(SetKey(markPreview(props), "__N_SSG"),
                                                    gspData(d))
                             /\ metadata' = getStaticPropsMetadata(d)
                             /\ UNCHANGED err
                             /\ IF returnsNotFound(d)
                                  THEN /\ result' = RenderResult("null", NoResult.json,
                                                                 metadata')
                                       /\ pc' = "rendered"
                                  ELSE /\ pc' = "serverSideProps"
                                       /\ UNCHANGED result
  /\ UNCHANGED <<outside, html, mod, ctx, docProps, request, instance, jsxStyleRegistry, initialProps, preview, query,
                 proxyCtx, gssp, res, nextData>>

\* the first error the handling of getServerSideProps' result throws
getServerSidePropsError(d) ==
  CASE ~validateProps(d) -> "invalid keys returned"
    [] returnsNotFound(d) /\ ctx.page = "/404" -> "/404 can not return notFound"
    [] returnsNotFound(d) -> "ok"
    [] returnsRedirect(d) /\ d.redirect = "invalid" -> "invalid redirect"
    [] serializableChecked /\ gspData(d).hasProps
         /\ ~isSerializableProps(gspData(d).props) -> "props not serializable"
    [] OTHER -> "ok"

\* render(): the getServerSideProps stage up to the call of the user's function
render_getServerSideProps ==
  /\ pc = "serverSideProps"
  /\ IF ~mod.gssp
       THEN /\ pc' = "return"
            /\ UNCHANGED <<props, calls, proxyCtx, gssp, passed>>
       ELSE /\ props' = SetKey(props, "__N_SSP")
            /\ IF isFallback
                 THEN /\ pc' = "return"
                      /\ UNCHANGED <<calls, proxyCtx, gssp, passed>>
                 ELSE /\ proxyCtx' = [hasResolved |-> FALSE, isDeferred |-> FALSE]
                      /\ calls' = [calls EXCEPT !.gssp = @ + 1]
                      /\ passed' = [passed EXCEPT
                                      !.gssp = PreviewArgs(getServerSidePropsPreview)]
                      /\ gssp' = [state |-> "pending", error |-> NoError]
                      /\ pc' = "awaitServerSideProps"
  /\ UNCHANGED <<outside, html, mod, ctx, docProps, request, instance, thrown, jsxStyleRegistry, initialProps, err,
                 preview, query, metadata, data, res, nextData, result>>

\* proxyResponse(context.res, proxyCtx): a write reaches the response only
\* while the proxy context has not resolved
proxyResponse(r, pctx) ==
  IF pctx.hasResolved
    THEN [r EXCEPT !.dropped = @ + 1]
    ELSE [r EXCEPT !.sent = TRUE, !.writes = @ + 1]

\* the user's getServerSideProps (or work it left behind) writes to its `res`
getServerSideProps_write ==
  /\ gssp.state # "none"
  /\ pc # "responded"
  /\ res.writes + res.dropped < MaxWrites
  /\ res' = proxyResponse(res, proxyCtx)
  /\ UNCHANGED <<outside, html, mod, ctx, docProps, request, instance, passed, thrown, jsxStyleRegistry,
                 initialProps, pc, err, calls, preview, query, props,
                 metadata, data, proxyCtx, gssp, nextData, result>>

\* the promise returned by the user's getServerSideProps settles
getServerSideProps_settle ==
  /\ gssp.state = "pending"
  /\ \/ \E d \in Results("gssp") :
          /\ data' = d
          /\ gssp' = [gssp EXCEPT !.state = "resolved"]
     \/ \E e \in UserErrors :
          /\ gssp' = [state |-> "rejected", error |-> e]
          /\ UNCHANGED data
  /\ UNCHANGED <<outside, html, mod, ctx, docProps, request, instance, passed, thrown, jsxStyleRegistry,
                 initialProps, pc, err, calls, preview, query, props,
                 metadata, proxyCtx, res, nextData, result>>

\* the proxy context left unresolved
resolvedProxyCtx_unset(d) ==
  [ hasResolved |-> FALSE, isDeferred |-> d.hasProps /\ d.deferred ]

\* proxyCtx.hasResolved = true, and isDeferred when the props are a promise
resolvedProxyCtx(d) ==
  [ hasResolved |-> TRUE, isDeferred |-> d.hasProps /\ d.deferred ]

\* render() resumes from `await getServerSideProps(...)` and handles the result
render_afterServerSideProps ==
  /\ pc = "awaitServerSideProps"
  /\ gssp.state \in {"resolved", "rejected"}
  /\ IF gssp.state = "rejected"
       THEN /\ Throw(stripNotFoundCode(gssp.error))
            /\ thrown' = [by |-> "gssp", error |-> gssp.error]
            /\ UNCHANGED <<proxyCtx, props, metadata, result>>
       ELSE /\ proxyCtx' = resolvedProxyCtx(data)
            /\ UNCHANGED thrown
            /\ IF getServerSidePropsError(data) # "ok"
                 THEN /\ Throw(Error(getServerSidePropsError(data)))
                      /\ UNCHANGED <<props, metadata, result>>
                 ELSE /\ UNCHANGED err
                      /\ IF returnsNotFound(data)
                           THEN /\ metadata' = [metadata EXCEPT !.isNotFound = TRUE]
                                /\ result' = RenderResult("null", NoResult.json,
                                                          metadata')
                                /\ pc' = "rendered"
                                /\ UNCHANGED props
                           ELSE /\ metadata' = [metadata EXCEPT
                                                  !.isRedirect = returnsRedirect(data),
                                                  !.pageData = TRUE]
                                /\ props' = mergeProps(props, gspData(data))
                                /\ pc' = "return"
                                /\ UNCHANGED result
  /\ UNCHANGED <<outside, html, mod, ctx, docProps, request, instance, passed, jsxStyleRegistry, initialProps, calls,
                 preview, query, data, gssp, res, nextData>>

\* only a redirect skips the Document
skipsDocument_redirectOnly == metadata.isRedirect

\* only a getServerSideProps data request skips the Document
skipsDocument_dataReqOnly == ctx.isDataReq /\ mod.gssp

\* a getServerSideProps data request and a redirect are answered with the props
skipsDocument == (ctx.isDataReq /\ mod.gssp) \/ metadata.isRedirect

\* the response taken as finished whatever the page declares
responseFinished_anyPage == res.sent

\* isResSent(context.res) && typeof getStaticProps !== 'function'
responseFinished == res.sent /\ ~mod.gsp

\* render(): the returns that skip the Document (data request, redirect,
\* response already sent)
render_return ==
  /\ pc = "return"
  /\ IF skipsDocument
       THEN IF JSONstringifyThrows(props)
              THEN /\ Throw(Error("TypeError: Do not know how to serialize a BigInt"))
                   /\ UNCHANGED result
              ELSE /\ result' = RenderResult("json", JSONstringify(props), metadata)
                   /\ pc' = "rendered"
                   /\ UNCHANGED err
       ELSE IF responseFinished
         THEN /\ result' = RenderResult("null", NoResult.json, metadata)
              /\ pc' = "rendered"
              /\ UNCHANGED err
         ELSE /\ pc' = "document"
              /\ UNCHANGED <<err, result>>
  /\ UNCHANGED <<outside, html, mod, ctx, docProps, request, instance, passed, thrown,
                 jsxStyleRegistry, initialProps, calls, preview, query, props,
                 metadata, data, proxyCtx, gssp, res, nextData>>

\* the page tree rendered inside <StyleRegistry registry={jsxStyleRegistry}>
\* leaves its styles in the registry
collectStyles(r) == [r EXCEPT !.pending = TRUE]

\* a flush that leaves the collected styles in the registry
flush_keepsStyles(r, site) ==
  [ pending |-> r.pending,
    emitted |-> r.emitted + B2N(r.pending),
    byDocument |-> r.byDocument + B2N(site = "document"),
    byInsertedHTML |-> r.byInsertedHTML + B2N(site = "insertedHTML") ]

\* const styles = jsxStyleRegistry.styles(); jsxStyleRegistry.flush(): the
\* collected styles go into the output and the registry is emptied
flush(r, site) ==
  [ pending |-> FALSE,
    emitted |-> r.emitted + B2N(r.pending),
    byDocument |-> r.byDocument + B2N(site = "document"),
    byInsertedHTML |-> r.byInsertedHTML + B2N(site = "insertedHTML") ]

RECURSIVE styledJsxInsertedHTML(_, _)
\* getServerInsertedHTML asked n times: each renders styledJsxInsertedHTML()
styledJsxInsertedHTML(r, n) ==
  IF n = 0 THEN r ELSE styledJsxInsertedHTML(flush(r, "insertedHTML"), n - 1)

\* whatever Document.getInitialProps resolved to taken as well-formed
malformedDocProps_never(dp) == FALSE

\* !docProps || typeof docProps.html !== 'string'
malformedDocProps(dp) == dp = "malformed"

\* render(): renderDocument(), up to the Document's initial props (or, without
\* Document.getInitialProps, the rendering of the shell and the flush of its
\* styles).  Document.getInitialProps renders the page through renderPage,
\* by way of defaultGetInitialProps (which flushes the styles) or directly
render_renderDocument ==
  /\ pc = "document"
  /\ calls' = [calls EXCEPT !.document = @ + 1]
  /\ IF mod.docGIP
       THEN \E dp \in {"ok", "malformed"}, endsRes \in BOOLEAN,
               viaDefault \in BOOLEAN :
              /\ docProps' = dp
              /\ jsxStyleRegistry' =
                   IF viaDefault
                     THEN flush(collectStyles(jsxStyleRegistry), "document")
                     ELSE collectStyles(jsxStyleRegistry)
              /\ res' = [res EXCEPT !.sent = @ \/ endsRes]
              /\ IF res'.sent /\ mod.gsp
                   THEN /\ result' = RenderResult("null", NoResult.json, metadata)
                        /\ pc' = "rendered"
                        /\ UNCHANGED err
                   ELSE IF malformedDocProps(dp)
                     THEN /\ Throw(Error("Document.getInitialProps resolved without html"))
                          /\ UNCHANGED result
                     ELSE /\ pc' = "html"
                          /\ UNCHANGED <<err, result>>
       ELSE /\ jsxStyleRegistry' =
                 flush(collectStyles(jsxStyleRegistry), "document")
            /\ pc' = "html"
            /\ UNCHANGED <<err, res, result, docProps>>
  /\ UNCHANGED <<outside, html, mod, ctx, request, instance, passed, thrown, initialProps, preview, query,
                 props, metadata, data, proxyCtx, gssp, nextData>>

\* htmlProps.__NEXT_DATA__
NEXT_DATA ==
  [ built |-> TRUE, props |-> props, page |-> ctx.page, query |-> query,
    nextExport |-> nextExport, autoExport |-> isAutoExport,
    isFallback |-> isFallback, gsp |-> mod.gsp, gssp |-> mod.gssp,
    gip |-> mod.gip, appGip |-> ~appHasDefaultGetInitialProps,
    isPreview |-> isPreview ]

RECURSIVE split(_, _)
\* String.prototype.split(separator): the pieces between the separators
split(str, separator) ==
  IF \A i \in 1..Len(str) : str[i] # separator
    THEN <<str>>
    ELSE LET i == CHOOSE k \in 1..Len(str) :
                    str[k] = separator /\ \A j \in 1..(k - 1) : str[j] # separator
         IN  <<SubSeq(str, 1, i - 1)>> \o split(SubSeq(str, i + 1, Len(str)), separator)

\* const [renderTargetPrefix, renderTargetSuffix] = documentHTML.split(marker)
renderTargetPrefix(documentHTML) == split(documentHTML, BodyRenderTarget)[1]

\* the second piece, undefined (nothing in the output) without a marker
renderTargetSuffix(documentHTML) ==
  IF Len(split(documentHTML, BodyRenderTarget)) >= 2
    THEN split(documentHTML, BodyRenderTarget)[2] ELSE <<>>

\* documentHTML.startsWith(DOCTYPE)
startsWith(documentHTML, searchString) ==
  Len(documentHTML) >= 1 /\ documentHTML[1] = searchString

\* documentResult.bodyResult(suffix): the body stream, then the suffix
bodyResult(suffix) == <<"<body stream>">> \o suffix

\* streamToString(chainStreams([streamFromArray(prefix), bodyResult(suffix)]))
assembleHTML(documentHTML) ==
  (IF ~startsWith(documentHTML, DOCTYPE) THEN <<DOCTYPE>> ELSE <<>>)
    \o renderTargetPrefix(documentHTML)
    \o (IF inAmpMode THEN <<"<!-- __NEXT_DATA__ -->">> ELSE <<>>)
    \o bodyResult(renderTargetSuffix(documentHTML))

\* render(): the Document is rendered around __NEXT_DATA__, the HTML is
\* assembled (the body stream asks for the server-inserted HTML as often as
\* it has chunks) and post-processed
render_html ==
  /\ pc = "html"
  /\ nextData' = NEXT_DATA
  /\ \E n \in 0..MaxInsertions :
       jsxStyleRegistry' = styledJsxInsertedHTML(jsxStyleRegistry, n)
  /\ html' = assembleHTML(documentMarkup)
  /\ result' = RenderResult("html", NoResult.json, metadata)
  /\ pc' = "rendered"
  /\ UNCHANGED <<outside, mod, ctx, docProps, request, instance, passed, thrown, initialProps, err, calls,
                 preview, query, props, metadata, data, proxyCtx, gssp, res>>

\* handle(): this.transform(request, result, ...)
handle_transform ==
  /\ pc = "rendered"
  /\ calls' = [calls EXCEPT !.transform = @ + 1]
  /\ pc' = "responded"
  /\ UNCHANGED <<outside, html, mod, ctx, docProps, request, instance, passed, thrown, jsxStyleRegistry,
                 initialProps, err, preview, query, props, metadata, data,
                 proxyCtx, gssp, res, nextData, result>>

Next ==
  \/ handle_setup
  \/ handle_preview
  \/ render_begin
  \/ render_loadGetInitialProps
  \/ render_getStaticProps
  \/ render_getServerSideProps
  \/ getServerSideProps_write
  \/ getServerSideProps_settle
  \/ render_afterServerSideProps
  \/ render_return
  \/ render_renderDocument
  \/ render_html
  \/ handle_transform

Spec == Init /\ [][Next]_vars

----------------------------------------------------------------------------
(* One module instance handling requests one after the other *)

\* the requests of a baseline configuration
InitRequests == Init /\ Deviations(mod, ctx) = 0

\* the next request reaches handle() of the same instance: every local of
\* handle() and render() is created anew, the instance is the same
handle_next ==
  /\ pc \in {"responded", "failed"}
  /\ instance.requests < MaxRequests
  /\ instance' = [instance EXCEPT !.requests = @ + 1]
  /\ \E c \in Contexts :
       /\ Reachable(mod, c) /\ Deviations(mod, c) = 0
       /\ ctx' = c
       /\ query' = c.query
       /\ request' = NextRequest(c)
  /\ pc' = "start"
  /\ err' = NoError
  /\ calls' = [ setup |-> 0, resolver |-> 0, render |-> 0, gip |-> 0, gsp |-> 0,
                gssp |-> 0, document |-> 0, transform |-> 0 ]
  /\ preview' = [ previewData |-> "undefined", isPreviewMode |-> FALSE ]
  /\ initialProps' = [ keys |-> <<>>, pageProps |-> EmptyObj ]
  /\ props' = [ keys |-> <<>>, pageProps |-> EmptyObj ]
  /\ metadata' = NoMetadata
  /\ data' = NoData
  /\ proxyCtx' = [ hasResolved |-> FALSE, isDeferred |-> FALSE ]
  /\ gssp' = [ state |-> "none", error |-> NoError ]
  /\ res' = NoResponse
  /\ nextData' = NoNextData
  /\ result' = NoResult
  /\ passed' = NotPassed
  /\ thrown' = NotThrown
  /\ jsxStyleRegistry' = createStyleRegistry
  /\ docProps' = "none"
  /\ html' = <<>>
  /\ UNCHANGED <<outside, mod>>

NextRequests == Next \/ handle_next

SpecRequests == InitRequests /\ [][NextRequests]_vars

----------------------------------------------------------------------------
(* One module instance handling two requests at once *)

\* the variables holding the locals of the request that is running
locals ==
  <<ctx, pc, err, calls, preview, query, initialProps, props, metadata, data,
    proxyCtx, gssp, res, nextData, result, passed, thrown, jsxStyleRegistry,
    docProps, request, html>>

\* the locals of handle() and render() for the request that is running
Locals ==
  [ ctx |-> ctx, pc |-> pc, err |-> err, calls |-> calls, preview |-> preview,
    query |-> query, initialProps |-> initialProps, props |-> props,
    metadata |-> metadata, data |-> data, proxyCtx |-> proxyCtx, gssp |-> gssp,
    res |-> res, nextData |-> nextData, result |-> result, passed |-> passed,
    thrown |-> thrown, jsxStyleRegistry |-> jsxStyleRegistry,
    docProps |-> docProps, request |-> request, html |-> html ]

\* the locals of a request that has reached handle() and not run yet
NewRequest(c) ==
  [ ctx |-> c, pc |-> "start", err |-> NoError,
    calls |-> [ setup |-> 0, resolver |-> 0, render |-> 0, gip |-> 0, gsp |-> 0,
                gssp |-> 0, document |-> 0, transform |-> 0 ],
    preview |-> [ previewData |-> "undefined", isPreviewMode |-> FALSE ],
    query |-> c.query,
    initialProps |-> [ keys |-> <<>>, pageProps |-> EmptyObj ],
    props |-> [ keys |-> <<>>, pageProps |-> EmptyObj ],
    metadata |-> NoMetadata, data |-> NoData,
    proxyCtx |-> [ hasResolved |-> FALSE, isDeferred |-> FALSE ],
    gssp |-> [ state |-> "none", error |-> NoError ],
    res |-> NoResponse, nextData |-> NoNextData, result |-> NoResult,
    passed |-> NotPassed, thrown |-> NotThrown,
    jsxStyleRegistry |-> createStyleRegistry, docProps |-> "none",
    request |-> NextRequest(c), html |-> <<>> ]

\* render()'s metadata kept on the instance: a request that resumes finds
\* the metadata as the other request left it
resumed_sharedMetadata(l) == [l EXCEPT !.metadata = metadata]

\* what a request finds when it resumes from an await: its own locals, every
\* one of them declared inside handle() or render()
resumed(l) == l

\* the running request is suspended at an await (handle() and render() run
\* without one from setup() to Loadable.preloadAll()) and the other one runs
handle_interleave ==
  /\ other.pc # "none"
  /\ pc \notin {"preview", "render"}
  /\ other' = Locals
  /\ ctx' = resumed(other).ctx
  /\ pc' = resumed(other).pc
  /\ err' = resumed(other).err
  /\ calls' = resumed(other).calls
  /\ preview' = resumed(other).preview
  /\ query' = resumed(other).query
  /\ initialProps' = resumed(other).initialProps
  /\ props' = resumed(other).props
  /\ metadata' = resumed(other).metadata
  /\ data' = resumed(other).data
  /\ proxyCtx' = resumed(other).proxyCtx
  /\ gssp' = resumed(other).gssp
  /\ res' = resumed(other).res
  /\ nextData' = resumed(other).nextData
  /\ result' = resumed(other).result
  /\ passed' = resumed(other).passed
  /\ thrown' = resumed(other).thrown
  /\ jsxStyleRegistry' = resumed(other).jsxStyleRegistry
  /\ docProps' = resumed(other).docProps
  /\ request' = resumed(other).request
  /\ html' = resumed(other).html
  /\ UNCHANGED <<mod, instance, inAmpMode, documentMarkup, link>>

\* two requests of a production page reach the same instance
InitConcurrent ==
  /\ InitRender
  /\ Deviations(mod, ctx) = 0
  /\ mod.production /\ ~mod.outputExport /\ ~mod.gip
  /\ ~mod.gsPaths /\ ~mod.isDynamic
  /\ ctx.page = "/p" /\ ~ctx.export
  /\ inAmpMode = FALSE
  /\ documentMarkup = BuiltinDocument
  /\ \E c \in Contexts :
       /\ Reachable(mod, c) /\ Deviations(mod, c) = 0
       /\ c.page = "/p" /\ ~c.export
       /\ other = NewRequest(c)
  /\ link = NotLinking

NextConcurrent == Next \/ handle_interleave

SpecConcurrent == InitConcurrent /\ [][NextConcurrent]_vars

----------------------------------------------------------------------------
(* linkPackages() of the repository helper: package.json files are rewritten
   one after the other, then every package is packed *)

\* the directories under packages/ and the name in the package.json of each
PackageNames ==
  [ dir \in {"next", "next-swc", "next-env", "font"} |->
      CASE dir = "next" -> "next"
        [] dir = "next-swc" -> "@next/swc"
        [] dir = "next-env" -> "@next/env"
        [] dir = "font" -> "@next/font" ]

\* pkgData.dependencies as checked out: name -> version range
Dependencies(name) ==
  IF name = "next"
    THEN [ dep \in {"@next/env", "react"} |-> "version" ]
    ELSE <<>>

\* what fs.readdir(path.join(repoDir, 'packages')) can resolve to
Listings ==
  UNION { { l \in [1..n -> DOMAIN PackageNames] :
              \A i, j \in 1..n : i # j => l[i] # l[j] } : n \in 0..MaxPackages }

\* path.join(pkgPath, `${pkg}-packed.tgz`)
packedPkgPath(pkg) == <<"packages", pkg, pkg, "-packed.tgz">>

\* the keys of a Map in insertion order
Keys(seq) == { seq[i] : i \in 1..Len(seq) }

\* linkPackages({ repoDir, nextSwcPkg }) is called in a checked-out repository
InitLink ==
  /\ mod = [ gsp |-> FALSE, gssp |-> FALSE, gip |-> FALSE, gsPaths |-> FALSE,
             isDynamic |-> FALSE, component |-> "ok", dev |-> FALSE,
             production |-> TRUE, outputExport |-> FALSE,
             appDefaultGIP |-> TRUE, docGIP |-> FALSE ]
  /\ ctx = [ page |-> "/p", export |-> FALSE, isDataReq |-> FALSE,
             query |-> Obj({"id"}, "1"), hasReq |-> TRUE, hasManifest |-> TRUE,
             cookie |-> "none" ]
  /\ InitRender
  /\ inAmpMode = FALSE
  /\ documentMarkup = BuiltinDocument
  /\ other = NoRequest
  /\ \E nextSwcPkg \in BOOLEAN : link = [NotLinking EXCEPT !.nextSwcPkg = nextSwcPkg]

\* pkgs = await fs.readdir(...): the listing, no packages directory, or
\* another error
link_readdir ==
  /\ link.pc = "start"
  /\ \/ \E l \in Listings : link' = [link EXCEPT !.pc = "getting", !.pkgs = l]
     \/ link' = [link EXCEPT !.pc = "returned", !.returned = link.pkgPaths]
     \/ link' = [link EXCEPT !.pc = "failed"]
  /\ UNCHANGED <<mod, instance, inAmpMode, documentMarkup, other, locals>>

RECURSIVE gettingPackageData(_, _)
\* 'getting package data': the names of the packages that have a
\* package.json, in the order of the listing
gettingPackageData(pkgs, exists) ==
  IF pkgs = <<>> THEN <<>>
  ELSE (IF Head(pkgs) \in exists THEN <<PackageNames[Head(pkgs)]>> ELSE <<>>)
         \o gettingPackageData(Tail(pkgs), exists)

\* the directory of a package name
Dir(name) == CHOOSE dir \in DOMAIN PackageNames : PackageNames[dir] = name

\* the loop over pkgs: pkgDatas.set(name, ...) and
\* pkgPaths.set(name, packedPkgPath) for every package.json that exists
link_getPackageData ==
  /\ link.pc = "getting"
  /\ \E exists \in SUBSET Keys(link.pkgs) :
       LET names == gettingPackageData(link.pkgs, exists) IN
       link' = [link EXCEPT
                  !.pc = "writing",
                  !.pkgDatas = names,
                  !.pkgPaths = [name \in Keys(names) |-> packedPkgPath(Dir(name))],
                  !.files = [name \in Keys(names) |->
                               [written |-> FALSE, dependencies |-> Dependencies(name)]],
                  !.promises = [name \in Keys(names) |-> "none"]]
  /\ UNCHANGED <<mod, instance, inAmpMode, documentMarkup, other, locals>>

\* the dependencies written to the package.json of pkg: every dependency on
\* a package of the repository points at its tarball; next also gets
\* @next/swc, from nextSwcPkg or from the repository
writtenDependencies(pkg) ==
  LET own == Dependencies(pkg)
      swc == IF pkg # "next" THEN {}
             ELSE IF link.nextSwcPkg \/ "@next/swc" \in Keys(link.pkgDatas)
               THEN {"@next/swc"} ELSE {}
  IN  [ dep \in DOMAIN own \cup swc |->
          IF pkg = "next" /\ dep = "@next/swc" /\ link.nextSwcPkg
            THEN "nextSwcPkg"
          ELSE IF dep \in Keys(link.pkgDatas) THEN link.pkgPaths[dep]
          ELSE own[dep] ]

\* 'writing package data', one turn of the loop: the package.json of the
\* next package is rewritten and written, or exec / fs.writeFile throws
link_writePackageData ==
  /\ link.pc = "writing"
  /\ link.written < Len(link.pkgDatas)
  /\ LET pkg == link.pkgDatas[link.written + 1] IN
       \/ link' = [link EXCEPT !.written = @ + 1,
                               !.files[pkg] = [written |-> TRUE,
                                               dependencies |-> writtenDependencies(pkg)]]
       \/ link' = [link EXCEPT !.pc = "failed"]
  /\ UNCHANGED <<mod, instance, inAmpMode, documentMarkup, other, locals>>

\* packing begun once one package.json has been written
writingDone_first == link.written >= 1 \/ Len(link.pkgDatas) = 0

\* await rootSpan.traceChild('writing package data').traceAsyncFn(...): the
\* loop over pkgDatas.keys() has come to its end
writingDone == link.written = Len(link.pkgDatas)

\* 'packing packages': the loop starts `yarn pack` for every package and
\* pushes its promise, without waiting for any of them
link_packPackages ==
  /\ link.pc = "writing"
  /\ writingDone
  /\ link' = [link EXCEPT !.pc = "packing",
                          !.promises = [name \in DOMAIN @ |-> "pending"]]
  /\ UNCHANGED <<mod, instance, inAmpMode, documentMarkup, other, locals>>

\* a `yarn pack` process ends, with or without an error
link_pack ==
  /\ \E name \in DOMAIN link.promises :
       /\ link.promises[name] = "pending"
       /\ \E state \in {"fulfilled", "rejected"} :
            link' = [link EXCEPT !.promises[name] = state]
  /\ UNCHANGED <<mod, instance, inAmpMode, documentMarkup, other, locals>>

\* await Promise.all(promises): it resolves when every promise is fulfilled,
\* and linkPackages returns pkgPaths; it rejects when one is rejected
link_return ==
  /\ link.pc = "packing"
  /\ \/ /\ \A name \in DOMAIN link.promises : link.promises[name] = "fulfilled"
        /\ link' = [link EXCEPT !.pc = "returned", !.returned = link.pkgPaths]
     \/ /\ \E name \in DOMAIN link.promises : link.promises[name] = "rejected"
        /\ link' = [link EXCEPT !.pc = "failed"]
  /\ UNCHANGED <<mod, instance, inAmpMode, documentMarkup, other, locals>>

NextLink ==
  \/ link_readdir
  \/ link_getPackageData
  \/ link_writePackageData
  \/ link_packPackages
  \/ link_pack
  \/ link_return

SpecLink == InitLink /\ [][NextLink]_vars

----------------------------------------------------------------------------
(* The assembly of the HTML, over the Documents a user can write *)

\* a production page without getStaticProps, in or outside AMP mode, under
\* any Document
InitAssembly ==
  /\ InitRender
  /\ Deviations(mod, ctx) = 0
  /\ mod.production /\ ~mod.outputExport /\ ~mod.gsp /\ ~mod.gip
  /\ ~mod.gsPaths /\ ~mod.isDynamic
  /\ ctx.page = "/p" /\ ~ctx.export
  /\ inAmpMode \in BOOLEAN
  /\ documentMarkup \in Documents
  /\ other = NoRequest
  /\ link = NotLinking

SpecAssembly == InitAssembly /\ [][Next]_vars

----------------------------------------------------------------------------
(* The claims *)

\* the page declares two or more of the three data-fetching contracts
Conflicting == B2N(mod.gsp) + B2N(mod.gssp) + B2N(mod.gip) >= 2

\* C1: a page module declaring two or more of getStaticProps,
\* getServerSideProps and getInitialProps makes setup() throw, and handle()
\* then runs no preview resolution, no user data-fetching function, no render
\* and no transform for the request.
C1_ConflictFailsSetup ==
  (Conflicting /\ pc # "start") =>
    /\ pc = "failed"
    /\ err.msg \in { "SERVER_PROPS_EXPORT_ERROR", "SSG_GET_INITIAL_PROPS_CONFLICT",
                     "SERVER_PROPS_GET_INIT_PROPS_CONFLICT",
                     "SERVER_PROPS_SSG_CONFLICT" }
    /\ calls = [ setup |-> 1, resolver |-> 0, render |-> 0, gip |-> 0, gsp |-> 0,
                 gssp |-> 0, document |-> 0, transform |-> 0 ]
    /\ ~result.produced

C1_Witness ==
  /\ mod.gsp /\ mod.gssp /\ ~mod.gip
  /\ ctx.hasReq /\ ctx.hasManifest /\ ctx.cookie = "valid"
  /\ pc = "failed"
  /\ err.msg = "SERVER_PROPS_SSG_CONFLICT"

\* C2: in a render() that follows a successful setup() at most one of the
\* page's three data-fetching functions is invoked.
C2_AtMostOneFetch == calls.gip + calls.gsp + calls.gssp <= 1

C2_Witness ==
  /\ pc = "responded"
  /\ calls.gssp = 1 /\ calls.gip = 0 /\ calls.gsp = 0
  /\ ~appHasDefaultGetInitialProps

\* C3 (as stated): the metadata of a RenderResult never has both isNotFound
\* and isRedirect set.
C3_Original ==
  result.produced => ~(result.metadata.isNotFound /\ result.metadata.isRedirect)

\* C3 (amended): the metadata of a RenderResult has both isNotFound and
\* isRedirect set only when NODE_ENV is production and getStaticProps
\* returned both notFound: true and a redirect, and that result has a null
\* body; for getServerSideProps, and outside production, never both.
C3_OneOutcomeOutsideProduction ==
  (result.produced /\ result.metadata.isNotFound /\ result.metadata.isRedirect)
    => /\ mod.production
       /\ data.by = "gsp" /\ data.notFound = "true" /\ data.redirect = "valid"
       /\ result.body = "null"

C3_Witness ==
  /\ result.produced
  /\ data.by = "gssp" /\ data.notFound = "true" /\ data.redirect = "valid"
  /\ result.metadata.isNotFound /\ ~result.metadata.isRedirect

\* C4: on a fallback request for a dynamic page with getStaticProps,
\* getStaticProps is not invoked and the page props used for rendering and
\* for the hydration payload are empty.
C4_FallbackPropsEmpty ==
  (mod.gsp /\ mod.isDynamic /\ isFallback /\ pc \in {"document", "html", "rendered", "responded"})
    => /\ calls.gsp = 0
       /\ props.pageProps = EmptyObj
       /\ (nextData.built => nextData.props.pageProps = EmptyObj)

\* C5 (as stated): a getStaticProps result with both `redirect` and `notFound`
\* makes render() fail without a RenderResult, whatever the mode.
C5_Original ==
  (data.by = "gsp" /\ data.notFound # "absent" /\ data.redirect # "absent")
    => (pc = "failed" /\ ~result.produced)

\* C5 (amended): when NODE_ENV is not production, a getStaticProps result
\* with both `redirect` and `notFound` makes render() fail with the
\* configuration error and without a RenderResult.
C5_MixedFailsOutsideProduction ==
  (~mod.production /\ data.by = "gsp"
     /\ data.notFound # "absent" /\ data.redirect # "absent")
    => /\ pc = "failed"
       /\ err.msg = "redirect and notFound both returned"
       /\ ~result.produced

C5_Witness ==
  /\ ~mod.production /\ ~mod.dev
  /\ data.by = "gsp" /\ data.notFound = "false" /\ data.redirect = "valid"
  /\ pc = "failed"

C7_Original ==
  (result.produced /\ ctx.isDataReq /\ mod.gssp)
    => /\ result.body = "json" /\ result.json = JSONstringify(props)
       /\ calls.document = 0 /\ ~nextData.built

\* C7 (amended): the RenderResult of a data request on a page with
\* getServerSideProps has as body exactly the JSON-serialized props, unless
\* getServerSideProps returned notFound: true, where the body is null; in
\* both cases the Document is never assembled.
C7_DataRequestBody ==
  (result.produced /\ ctx.isDataReq /\ mod.gssp)
    => /\ IF data.by = "gssp" /\ data.notFound = "true"
            THEN result.body = "null" /\ result.metadata.isNotFound
            ELSE result.body = "json" /\ result.json = JSONstringify(props)
       /\ calls.document = 0 /\ ~nextData.built

C7_Witness ==
  /\ result.produced /\ ctx.isDataReq /\ mod.gssp
  /\ data.by = "gssp" /\ data.props = PUndef
  /\ result.body = "json"
  /\ result.json = [keys |-> <<"pageProps", "__N_SSP">>, pageProps |-> P1]

\* C8: on a non-fallback request of a page whose getStaticProps returns
\* {props: P}, the hydration payload has the request's query unchanged and
\* props.pageProps equal to the App-provided page props overridden key by key
\* by P.
C8_PagePropsRoundTrip ==
  (nextData.built /\ mod.gsp /\ ~isFallback /\ data.by = "gsp" /\ data.hasProps)
    => /\ nextData.query = ctx.query
       /\ nextData.props.pageProps = ObjectAssign(initialProps.pageProps, data.props)
       /\ (initialProps.pageProps = EmptyObj => nextData.props.pageProps = data.props)

C8_Witness ==
  /\ nextData.built /\ mod.gsp /\ mod.dev
  /\ data.by = "gsp" /\ data.props = P1
  /\ initialProps.pageProps = Obj({"id", "k"}, "0")
  /\ nextData.query = Obj({"id"}, "1")
  /\ nextData.props.pageProps = [k \in {"id", "k"} |-> IF k = "id" THEN "1" ELSE "0"]

\* render() has resumed from the await of getServerSideProps
Resumed == pc # "awaitServerSideProps"

\* C9 (as stated): once the getServerSideProps promise has settled, resolved
\* or rejected, and render() has resumed from it, the response proxy is frozen.
C9_Original ==
  (gssp.state \in {"resolved", "rejected"} /\ Resumed) => proxyCtx.hasResolved

\* C9 (amended): once render() has resumed from a getServerSideProps promise
\* that resolved, the response proxy is frozen, and from then on no write the
\* user's function attempts reaches the response; after a rejected promise
\* the proxy is never frozen.
C9_FrozenAfterResolve ==
  [][ /\ (gssp'.state = "resolved" /\ Resumed') => proxyCtx'.hasResolved
      /\ gssp'.state = "rejected" => ~proxyCtx'.hasResolved
      /\ (proxyCtx.hasResolved /\ res'.writes + res'.dropped # res.writes + res.dropped)
           => (res'.sent = res.sent /\ res'.writes = res.writes) ]_vars

C9_Witness ==
  /\ proxyCtx.hasResolved
  /\ res.dropped = 1 /\ ~res.sent
  /\ pc = "responded" /\ result.body = "html"

\* C10: a NotFound or Redirect outcome of getStaticProps or getServerSideProps
\* makes render() return without assembling the Document; the RenderResult of
\* a NotFound outcome has a null body.
C10_OutcomeSkipsDocument ==
  /\ (metadata.isNotFound \/ metadata.isRedirect)
       => (calls.document = 0 /\ ~nextData.built /\ pc \notin {"document", "html"})
  /\ (result.produced /\ result.metadata.isNotFound) => result.body = "null"
  /\ (result.produced /\ result.metadata.isRedirect /\ ~result.metadata.isNotFound)
       => result.body = "json"

C10_Witness ==
  /\ pc = "responded"
  /\ data.by = "gsp" /\ data.redirect = "valid"
  /\ result.metadata.isRedirect /\ result.body = "json"
  /\ calls.document = 0

\* handle() is past its preview check
PreviewChecked == pc = "render" \/ calls.render = 1

\* C11: when the preview resolver returns false, handle() goes on to render():
\* isPreviewMode is false, the props and the hydration payload carry no
\* preview mark, and neither getStaticProps nor getServerSideProps is passed
\* preview: true.
C11_FailedDecodingIsNoPreview ==
  (calls.resolver = 1 /\ preview.previewData = "false") =>
    /\ PreviewChecked
    /\ ~preview.isPreviewMode
    /\ ~passed.gsp.preview /\ ~passed.gssp.preview
    /\ ~HasKey(props, "__N_PREVIEW")
    /\ (nextData.built => ~nextData.isPreview)

C11_Witness ==
  /\ ctx.cookie = "invalid" /\ calls.resolver = 1
  /\ mod.gssp /\ passed.gssp.called /\ ~passed.gssp.preview
  /\ pc = "responded" /\ result.body = "html"

\* C12 (as stated): the preview resolver is called only for a request that
\* carries the preview cookie, on a page with getStaticProps or
\* getServerSideProps; without a call the request is not in preview mode.
C12_Original ==
  /\ calls.resolver = 1 => (ctx.cookie # "none" /\ (mod.gsp \/ mod.gssp))
  /\ calls.resolver = 0 => ~preview.isPreviewMode

\* C12 (amended): the preview resolver is called exactly when the Node
\* request and the prerender manifest are there and the page declares
\* getStaticProps or getServerSideProps, with or without the preview cookie;
\* the request is in preview mode only if the resolver was called and the
\* cookie decodes.
C12_ResolverGate ==
  /\ calls.resolver =
       IF PreviewChecked /\ ctx.hasReq /\ ctx.hasManifest /\ (mod.gsp \/ mod.gssp)
         THEN 1 ELSE 0
  /\ preview.isPreviewMode =>
       (calls.resolver = 1 /\ ctx.cookie = "valid" /\ (mod.gsp \/ mod.gssp))

C12_Witness ==
  /\ ctx.cookie = "none" /\ calls.resolver = 1
  /\ ~preview.isPreviewMode
  /\ pc = "responded" /\ result.body = "html"

\* C13 (as stated): an error thrown by getStaticProps, getServerSideProps or
\* getInitialProps propagates out of render(), and an ENOENT code it carries
\* has been removed from it.
C13_Original ==
  thrown.by # "none" =>
    /\ pc = "failed" /\ ~result.produced
    /\ err.msg = thrown.error.msg
    /\ err.code = "none"

\* C13 (amended): an error thrown by a user data-fetching function
\* propagates out of render(); thrown by getStaticProps or getServerSideProps
\* it has lost an ENOENT code, thrown by a getInitialProps it propagates
\* unchanged, ENOENT code included.
C13_ErrorPropagates ==
  thrown.by # "none" =>
    /\ pc = "failed" /\ ~result.produced
    /\ err.msg = thrown.error.msg
    /\ thrown.by \in {"gsp", "gssp"} => err.code = "none"
    /\ thrown.by = "gip" => err = thrown.error

C13_Witness ==
  /\ thrown.by = "gssp" /\ thrown.error.code = "ENOENT"
  /\ pc = "failed" /\ err = [msg |-> "user error", code |-> "none"]

\* C14: across the requests one module instance handles, setup() is
\* executed exactly once: once the first request is past its start, the
\* instance has run setup() once, however many requests followed.
C14_SetupOnce ==
  /\ instance.setups <= 1
  /\ (instance.requests > 1 \/ pc # "start") => instance.setups = 1

\* the three ways getStaticPaths is declared or missing wrongly
PathsConflict ==
  \/ mod.gsPaths /\ ~mod.gsp
  \/ mod.gsPaths /\ ~mod.isDynamic
  \/ mod.isDynamic /\ mod.gsp /\ ~mod.gsPaths

PathsErrors ==
  { "getStaticPaths on non-dynamic page", "getStaticPaths without getStaticProps",
    "getStaticPaths is required" }

\* C15: setup() fails whenever getStaticPaths is declared without
\* getStaticProps or on a non-dynamic route, and whenever a dynamic route
\* declares getStaticProps without getStaticPaths: such a request never gets
\* to the preview check or to render(); a dynamic route with both and a
\* non-dynamic route with getStaticProps alone never fail with one of the
\* three errors of these checks.
C15_StaticPathsChecks ==
  pc # "start" =>
    /\ PathsConflict =>
         (pc = "failed" /\ calls.resolver = 0 /\ calls.render = 0 /\ ~result.produced)
    /\ ~PathsConflict => err.msg \notin PathsErrors

C15_Witness ==
  /\ mod.isDynamic /\ mod.gsp /\ ~mod.gsPaths /\ ~mod.gssp /\ ~mod.gip
  /\ pc = "failed" /\ err.msg = "getStaticPaths is required"

\* the errors of the two static-export checks of setup()
ExportErrors == { "SERVER_PROPS_EXPORT_ERROR", "gssp with output: export" }

\* C16: setup() fails whenever the page declares getServerSideProps and the
\* request's export flag is set or config.output is 'export'; a page without
\* getServerSideProps never fails with the error of one of these two checks.
C16_ServerPropsExport ==
  pc # "start" =>
    /\ (mod.gssp /\ (ctx.export \/ mod.outputExport)) =>
         (pc = "failed" /\ calls.resolver = 0 /\ calls.render = 0 /\ ~result.produced)
    /\ (mod.gssp /\ ctx.export) => err.msg = "SERVER_PROPS_EXPORT_ERROR"
    /\ ~mod.gssp => err.msg \notin ExportErrors

C16_Witness ==
  /\ mod.gssp /\ mod.outputExport /\ ~ctx.export /\ ~mod.gsp /\ ~mod.gip
  /\ pc = "failed" /\ err.msg = "gssp with output: export"

\* C17: getServerSideProps is passed preview: true only when handle()
\* computed isPreviewMode = true; when the preview resolution was skipped or
\* the request is not a preview it gets no preview flag, as getStaticProps.
C17_ServerSidePreviewFlag ==
  /\ passed.gssp.preview => preview.isPreviewMode
  /\ passed.gsp.preview => preview.isPreviewMode

\* C18: within one request each user data-fetching function is invoked at
\* most once; when one of them throws, the request has failed at once, with
\* no Document assembled, no RenderResult and no transform; and a failed
\* request stays failed, no stage of the pipeline running again.
C18_NoRetry ==
  /\ [](/\ calls.gip <= 1 /\ calls.gsp <= 1 /\ calls.gssp <= 1
        /\ thrown.by # "none" =>
             /\ pc = "failed"
             /\ calls.document = 0 /\ calls.transform = 0
             /\ ~result.produced /\ ~nextData.built
        /\ pc = "failed" => calls.transform = 0)
  /\ [][pc = "failed" => (pc' = "failed" /\ calls' = calls /\ result' = result)]_vars

C18_Witness ==
  /\ thrown.by = "gsp" /\ calls.gsp = 1
  /\ pc = "failed" /\ calls.document = 0 /\ calls.transform = 0
  /\ res.writes = 0

\* render() returned the HTML of the page
HtmlRendered == result.produced /\ result.body = "html"

\* C19 (as stated): in every render that assembles the document the style
\* registry is flushed exactly once, with and without Document.getInitialProps.
C19_Original ==
  HtmlRendered =>
    jsxStyleRegistry.byDocument + jsxStyleRegistry.byInsertedHTML = 1

\* C19 (amended): in every render that assembles the document the styles
\* collected go into the output at most once, whatever the number of
\* flushes: without Document.getInitialProps renderDocument flushes the
\* registry exactly once, with it at most once (through
\* defaultGetInitialProps), and on both paths every request of the body
\* stream for server-inserted HTML flushes it once more.
C19_StylesOnce ==
  /\ jsxStyleRegistry.emitted <= 1
  /\ jsxStyleRegistry.emitted = 1 => ~jsxStyleRegistry.pending
  /\ HtmlRendered =>
       /\ ~mod.docGIP => (jsxStyleRegistry.byDocument = 1 /\ jsxStyleRegistry.emitted = 1)
       /\ mod.docGIP => jsxStyleRegistry.byDocument <= 1
       /\ jsxStyleRegistry.byDocument + jsxStyleRegistry.byInsertedHTML >= 1
            => jsxStyleRegistry.emitted = 1

C19_Witness ==
  /\ HtmlRendered /\ ~mod.docGIP
  /\ jsxStyleRegistry.byDocument = 1 /\ jsxStyleRegistry.byInsertedHTML = 1
  /\ jsxStyleRegistry.emitted = 1

\* C20: when getStaticProps returns notFound: true together with a valid
\* revalidate (false or a positive integer), every RenderResult of the
\* request has a null body, isNotFound set and the validated revalidate in
\* its metadata.
C20_NotFoundKeepsRevalidate ==
  ( /\ result.produced /\ data.by = "gsp" /\ data.notFound = "true"
    /\ data.revalidate.kind # "absent" /\ validateRevalidate(data.revalidate).ok )
    => /\ result.body = "null"
       /\ result.metadata.isNotFound
       /\ result.metadata.revalidate = data.revalidate
       /\ calls.document = 0

C20_Witness ==
  /\ result.produced /\ result.body = "null"
  /\ data.by = "gsp" /\ data.notFound = "true" /\ data.redirect = "absent"
  /\ data.revalidate = [kind |-> "number", n |-> MaxRevalidate]
  /\ result.metadata.isNotFound
  /\ result.metadata.revalidate = [kind |-> "number", n |-> MaxRevalidate]
  /\ pc = "responded"

\* C22 (as stated): whenever Document.getInitialProps resolved to a malformed
\* result, render() fails and produces no RenderResult.
C22_Original ==
  docProps = "malformed" => (pc = "failed" /\ ~result.produced)

\* C22 (amended): a malformed result of Document.getInitialProps makes
\* render() fail without a RenderResult and without HTML, unless the page has
\* getStaticProps and the response has been sent by then: that render
\* returns a null-body RenderResult and the result is never looked at.
C22_MalformedDocument ==
  docProps = "malformed"
    => IF mod.gsp /\ res.sent
         THEN /\ pc \in {"rendered", "responded"}
              /\ result.produced /\ result.body = "null" /\ err = NoError
         ELSE /\ pc = "failed" /\ ~result.produced /\ ~nextData.built
              /\ err = Error("Document.getInitialProps resolved without html")

C22_Witness ==
  /\ docProps = "malformed" /\ mod.gsp /\ ~res.sent
  /\ data.by = "gsp" /\ data.props = P1
  /\ pc = "failed" /\ ~result.produced

\* the user's function returned props that are not serializable and nothing
\* else (no notFound, redirect or revalidate), and nothing else went wrong
NonSerializable ==
  /\ data.by \in {"gsp", "gssp"} /\ gssp.state # "pending"
  /\ data.hasProps /\ ~isSerializableProps(data.props)
  /\ data.notFound = "absent" /\ data.redirect = "absent"
  /\ data.revalidate.kind = "absent"
  /\ docProps # "malformed"
  /\ pc \in {"failed", "responded"}

C27_PayloadFlags ==
  nextData.built
    => /\ B2N(nextData.gsp) + B2N(nextData.gssp) + B2N(nextData.gip) <= 1
       /\ nextData.autoExport
            => ~(nextData.gsp \/ nextData.gssp \/ nextData.gip)
       /\ nextData.gsp => ~nextData.nextExport
       /\ nextData.gsp = mod.gsp /\ nextData.gssp = mod.gssp
       /\ nextData.gip = mod.gip

C27_Witness ==
  /\ nextData.built /\ nextData.gsp /\ ctx.export /\ ~nextData.nextExport
  /\ ~nextData.gssp /\ ~nextData.gip /\ ~nextData.autoExport

\* C28 (as stated): whenever the response has been sent by the end of the
\* initial-props stage, render() returns a null-body RenderResult and never
\* produces HTML, whatever the page and the Document declare.
C28_Original ==
  res.sentByInitialProps
    => /\ pc # "html" /\ ~nextData.built
       /\ result.produced => result.body = "null"

\* C28 (amended): a RenderResult returned after the response was sent during
\* the initial-props stage has a null body, except that a getServerSideProps
\* data request and a redirect are answered with the serialized props, and
\* that a page with getStaticProps under a Document without getInitialProps
\* is rendered to HTML, the sent response being looked at only after
\* Document.getInitialProps for such a page.
C28_SentResponse ==
  (res.sentByInitialProps /\ result.produced)
    => result.body =
         IF result.metadata.isNotFound THEN "null"
         ELSE IF skipsDocument THEN "json"
         ELSE IF mod.gsp /\ ~mod.docGIP THEN "html"
         ELSE "null"

C28_Witness ==
  /\ res.sentByInitialProps /\ ~mod.gsp /\ ~mod.gssp /\ mod.gip
  /\ pc = "responded" /\ result.body = "null"
  /\ calls.document = 0 /\ ~nextData.built

\* C29: a redirect returned by getStaticProps on an export render makes
\* render() fail, and no RenderResult of an export request has isRedirect set.
C29_ExportRedirectFails ==
  /\ (ctx.export /\ data.by = "gsp" /\ returnsRedirect(data))
       => (pc = "failed" /\ ~result.produced)
  /\ (ctx.export /\ result.produced) => ~result.metadata.isRedirect

C29_Witness ==
  /\ ctx.export /\ data.by = "gsp" /\ data.redirect = "valid"
  /\ data.notFound = "absent"
  /\ pc = "failed" /\ err = Error("redirect during prerendering")

\* the pieces of markup of a Document that are no marker, in their order
Markup(str) ==
  SelectSeq(str, LAMBDA piece : piece \in {"<html>", "</html>"})

\* C21: the HTML handed to post-processing is the doctype (only if the
\* Document's markup does not start with it), the markup before the marker,
\* the AMP comment (in AMP mode only), the body stream and the markup after
\* the marker; it starts with exactly one doctype and loses no markup of the
\* Document other than the marker.
C21_Assembly ==
  html # <<>>
    => /\ html = (IF documentMarkup # <<>> /\ documentMarkup[1] = DOCTYPE
                    THEN <<>> ELSE <<DOCTYPE>>)
                 \o renderTargetPrefix(documentMarkup)
                 \o (IF inAmpMode THEN <<"<!-- __NEXT_DATA__ -->">> ELSE <<>>)
                 \o <<"<body stream>">>
                 \o renderTargetSuffix(documentMarkup)
       /\ html[1] = DOCTYPE
       /\ Cardinality({i \in DOMAIN html : html[i] = DOCTYPE}) = 1
       /\ Markup(html) = Markup(documentMarkup)

\* the metadata render() derives from what the user's function of the
\* request with locals l returned
OwnMetadata(l) ==
  CASE l.data.by = "gsp" ->
         [ isNotFound |-> returnsNotFound(l.data),
           isRedirect |-> returnsRedirect(l.data),
           revalidate |-> IF l.data.revalidate.kind # "absent"
                            THEN l.data.revalidate
                            ELSE NoMetadata.revalidate,
           pageData |-> TRUE ]
    [] l.data.by = "gssp" /\ returnsNotFound(l.data) ->
         [NoMetadata EXCEPT !.isNotFound = TRUE]
    [] l.data.by = "gssp" /\ ~returnsNotFound(l.data) ->
         [NoMetadata EXCEPT !.isRedirect = returnsRedirect(l.data),
                            !.pageData = TRUE]
    [] OTHER -> NoMetadata

\* the body and the metadata of the request with locals l are those its own
\* context and its own user functions lead to, as if it were handled alone
OwnOutcome(l) ==
  /\ l.result.produced
       => /\ l.result.metadata = OwnMetadata(l)
          /\ l.result.body =
               CASE l.result.metadata.isNotFound -> "null"
                 [] (l.ctx.isDataReq /\ mod.gssp) \/ l.result.metadata.isRedirect
                      -> "json"
                 [] l.res.sentByInitialProps /\ (~mod.gsp \/ mod.docGIP) -> "null"
                 [] l.pc = "rendered" \/ l.pc = "responded" -> l.result.body
          /\ l.result.body = "json" => l.result.json = JSONstringify(l.props)
          /\ l.result.body = "html"
               => /\ l.nextData.built /\ l.nextData.props = l.props
                  /\ l.nextData.query = l.ctx.query
                  /\ l.html = assembleHTML(documentMarkup)
                  /\ l.jsxStyleRegistry.emitted = 1
  /\ l.data.by = "none" => l.props.pageProps = l.initialProps.pageProps
  /\ (l.data.by # "none" /\ l.result.produced /\ ~l.result.metadata.isNotFound)
       => l.props.pageProps =
            ObjectAssign(l.initialProps.pageProps, gspData(l.data).props)
  /\ l.proxyCtx.hasResolved => l.gssp.state = "resolved"
  /\ l.request = NextRequest(l.ctx)
  /\ l.calls.gsp + l.calls.gssp <= 1 /\ l.calls.document <= 1

Packing == \E name \in DOMAIN link.promises : link.promises[name] # "none"

\* C30: in linkPackages no package is packed before the package.json of
\* every package has been rewritten with the tarball paths of its
\* dependencies; the packs are then all started together; and linkPackages
\* returns only after every one of them has finished, with a map from every
\* package name found to the path of its tarball.
C30_PackAfterWrite ==
  /\ Packing
       => \A name \in Keys(link.pkgDatas) :
            /\ link.files[name].written
            /\ \A dep \in DOMAIN link.files[name].dependencies
                            \cap Keys(link.pkgDatas) :
                 link.files[name].dependencies[dep] \in
                   {packedPkgPath(Dir(dep)), "nextSwcPkg"}
  /\ Packing => \A name \in DOMAIN link.promises : link.promises[name] # "none"
  /\ link.pc = "returned"
       => /\ \A name \in DOMAIN link.promises : link.promises[name] = "fulfilled"
          /\ DOMAIN link.returned = Keys(link.pkgDatas)
          /\ \A name \in Keys(link.pkgDatas) :
               link.returned[name] = packedPkgPath(Dir(name))

C30_Witness ==
  /\ link.pc = "returned"
  /\ link.pkgDatas = <<"@next/env", "next">> /\ Len(link.pkgs) = 3
  /\ link.files["next"].dependencies["@next/env"] = packedPkgPath("next-env")
  /\ link.returned["next"] = <<"packages", "next", "next", "-packed.tgz">>

====
